---------------------------- MODULE Spec2Model ----------------------------
(***************************************************************************)
(* A model of the legistar scraper core: the per-document `sources`        *)
(* accumulator and its producer (legistar/bills.py), the bill field        *)
(* producers, the paginated search traversal, and the jurisdiction         *)
(* registry and classification lookup (legistar/jurisdictions/base.py).    *)
(*                                                                         *)
(* Python strings that are sorted, split or searched are modelled as       *)
(* sequences of character codes (ASCII), so that ordering, joining and     *)
(* splitting are computed and not assumed.                                 *)
(***************************************************************************)
EXTENDS Integers, Sequences, FiniteSets, TLC

VARIABLES
    sources,      \* chainmap['sources']: insertion-ordered dict note -> url,
                  \* as a sequence of <<note, url>> with distinct notes
    emitted,      \* the list last produced by a `sources` producer
    emittedBy,    \* which producer ran: "BillsFields" / "BillsDetailAction"
    \* ---- paginated search (BillsSearchForm.gen_documents) ----
    site,         \* the result pages of the target site, in link order
    pgPc,         \* position of the generator: start / rows / next / done
    pgCur,        \* index in site of the response being walked (0: none yet)
    pgRow,        \* rows of the current response already yielded
    pulling,      \* TRUE while the consumer's next() is being served
    yielded,      \* rows handed to the consumer so far, as <<page, row>>
    fetchLog,     \* urls requested so far, in request order
    \* ---- bill detail documents of a search's rows ----
    bills,        \* per bill row: the number of action rows its nested Form yields
    dtIdx,        \* the bill row whose detail document is built next
    docs,         \* detail documents yielded so far
    skipped,      \* bill rows whose build raised SkipDocument
    dtFailure,    \* TRUE once a build has reported a failure upward
    \* ---- jurisdiction registry ----
    JXN_CONFIGS,  \* the module-level registry: key -> Config type
    defined,      \* class bodies (attrs) of the Config types defined so far;
                  \* a type is identified by its position
    \* ---- field producers of a bill document ----
    fPage,        \* the page: the one field it may render text for, and that text
    fFormat,      \* the active Config's datetime_format
    fProduced,    \* the producer that has run (None: none yet)
    fOutcome,     \* what that producer did: a return value or a raised error
    \* ---- organization classification ----
    oCfg,         \* the jurisdiction's ORG_CLASSIFICATIONS
    oType,        \* the org table's `type` text handed to get_org_classification
    oCalled,      \* TRUE once the call has been made
    oOutcome,     \* what the call did
    \* ---- the `media` list of an action row ----
    pupa_media,   \* the Config's pupa_media: the labels to take, in order
    mRow,         \* the row's field data (url, text) of each label
    mServer,      \* content-type the site answers a HEAD request with, per url
    mIdx,         \* position of gen_media's loop in pupa_media
    media,        \* the items materialised so far by wrapwith=list
    mHeads,       \* urls HEAD-requested so far, in order
    mEnd,         \* how the producer ended: None while running, "exhausted",
                  \* or the name of the exception that left it
    \* ---- layered overlays (collections.ChainMap) ----
    ovHeap,       \* the dict objects in existence; a dict is named by its position
    ovLayers,     \* the ChainMap objects: their maps (dict names, nearest first)
                  \* and the layer new_child was called on (0 for a root)
    ovClassn,     \* the dict that is the Config's ORG_CLASSIFICATIONS (0: not set)
    ovLast,       \* the last operation and the layer it was applied to
    \* ---- building one document twice ----
    bPage,        \* the static page: the provenance its views record while the
                  \* document is built (in order) and the text of its fields
    bStart,       \* the accumulated sources the first build started from
    bSources,     \* chainmap['sources'] of the overlay the build runs on
    bSeed,        \* hash seed of the running process: decides the order in
                  \* which a set of str is iterated
    bPc,          \* position of the build: idle / views / fields / built
    bView,        \* the view of bPage that records its provenance next
    bDocs         \* the documents built so far, in order

srcVars == <<sources, emitted, emittedBy>>
pageVars == <<site, pgPc, pgCur, pgRow, pulling, yielded, fetchLog>>

detVars == <<bills, dtIdx, docs, skipped, dtFailure>>

regVars == <<JXN_CONFIGS, defined>>

fldVars == <<fPage, fFormat, fProduced, fOutcome>>
orgVars == <<oCfg, oType, oCalled, oOutcome>>
medVars == <<pupa_media, mRow, mServer, mIdx, media, mHeads, mEnd>>
ovVars == <<ovHeap, ovLayers, ovClassn, ovLast>>
bldVars == <<bPage, bStart, bSources, bSeed, bPc, bView, bDocs>>

vars == <<srcVars, pageVars, detVars, regVars, fldVars, orgVars, medVars, ovVars, bldVars>>

notSrc == <<pageVars, detVars, regVars, fldVars, orgVars, medVars, ovVars, bldVars>>
notPage == <<srcVars, detVars, regVars, fldVars, orgVars, medVars, ovVars, bldVars>>
notDetail == <<srcVars, pageVars, regVars, fldVars, orgVars, medVars, ovVars, bldVars>>
notReg == <<srcVars, pageVars, detVars, fldVars, orgVars, medVars, ovVars, bldVars>>
notFields == <<srcVars, pageVars, detVars, regVars, orgVars, medVars, ovVars, bldVars>>
notOrg == <<srcVars, pageVars, detVars, regVars, fldVars, medVars, ovVars, bldVars>>
notMedia == <<srcVars, pageVars, detVars, regVars, fldVars, orgVars, ovVars, bldVars>>
notOverlay == <<srcVars, pageVars, detVars, regVars, fldVars, orgVars, medVars, bldVars>>
notBuild == <<srcVars, pageVars, detVars, regVars, fldVars, orgVars, medVars, ovVars>>

None == "None"

(***************************************************************************)
(* Strings as sequences of character codes.                                *)
(***************************************************************************)

\* Python's str ordering: lexicographic by code point, a proper prefix first.
RECURSIVE StrLess(_, _)
StrLess(a, b) ==
    IF b = <<>> THEN FALSE
    ELSE IF a = <<>> THEN TRUE
    ELSE IF Head(a) # Head(b) THEN Head(a) < Head(b)
    ELSE StrLess(Tail(a), Tail(b))

\* sep.join(parts)
RECURSIVE Join(_, _)
Join(sep, parts) ==
    IF parts = <<>> THEN <<>>
    ELSE IF Len(parts) = 1 THEN parts[1]
    ELSE parts[1] \o sep \o Join(sep, Tail(parts))

\* The least string of a non-empty finite set of strings.
MinStr(S) == CHOOSE m \in S : \A x \in S : x = m \/ StrLess(m, x)

\* Order in which the members of a set are visited when nothing sorts them.
UnsortedList(S) ==
    CHOOSE s \in [1..Cardinality(S) -> S] :
        /\ \A i, j \in 1..Cardinality(S) : i # j => s[i] # s[j]
        /\ \A i \in 1..(Cardinality(S) - 1) : ~StrLess(s[i], s[i + 1])

\* sorted(S) for a set of strings
RECURSIVE SortedList(_)
SortedList(S) ==
    IF S = {} THEN <<>>
    ELSE LET m == MinStr(S) IN <<m>> \o SortedList(S \ {m})

CommaSpace == <<44, 32>>   \* ", "

(***************************************************************************)
(* The sources_note strings of legistar/bills.py.                          *)
(***************************************************************************)
\* 'bills search'
NoteBillsSearch == <<98,105,108,108,115,32,115,101,97,114,99,104>>
\* 'bill search table'
NoteBillSearchTable ==
    <<98,105,108,108,32,115,101,97,114,99,104,32,116,97,98,108,101>>
\* 'bill detail'
NoteBillDetail == <<98,105,108,108,32,100,101,116,97,105,108>>
\* 'bill detail table'
NoteBillDetailTable ==
    <<98,105,108,108,32,100,101,116,97,105,108,32,116,97,98,108,101>>
\* 'bill action detail'
NoteBillActionDetail ==
    <<98,105,108,108,32,97,99,116,105,111,110,32,100,101,116,97,105,108>>

Notes == { NoteBillsSearch, NoteBillSearchTable, NoteBillDetail,
           NoteBillDetailTable, NoteBillActionDetail }

Urls == { "http://x/1", "http://x/2" }

MaxSources == 3

(***************************************************************************)
(* The `sources` producers.                                                *)
(***************************************************************************)

\* dict.items() of the accumulator: the <<note, url>> pairs in insertion order.
Items(d) == d

\* grouped = defaultdict(set); grouped[url].add(note): keys in first-seen order
RECURSIVE GroupedKeys(_)
GroupedKeys(items) ==
    IF items = <<>> THEN <<>>
    ELSE LET front == SubSeq(items, 1, Len(items) - 1)
             u     == items[Len(items)][2]
             keys  == GroupedKeys(front)
         IN IF \E i \in 1..Len(keys) : keys[i] = u THEN keys
            ELSE Append(keys, u)

GroupedNotes(items, u) ==
    { items[i][1] : i \in { j \in 1..Len(items) : items[j][2] = u } }

\* Iteration order of a set of str: it follows the strings' hashes, which the
\* process salts with its hash seed. Two seeds are told apart, giving opposite
\* orders.
HashSeeds == { "seed-a", "seed-b" }

Reverse(s) == [ i \in 1..Len(s) |-> s[Len(s) + 1 - i] ]

SetIter(S, seed) ==
    IF seed = "seed-b" THEN Reverse(SortedList(S)) ELSE SortedList(S)

\* A producer that joins the notes in the set's own iteration order.
gen_sources_hash_order(d) ==
    LET keys == GroupedKeys(Items(d))
    IN [ i \in 1..Len(keys) |->
           [ url  |-> keys[i],
             note |-> Join(CommaSpace,
                           SetIter(GroupedNotes(Items(d), keys[i]), bSeed)) ] ]

\* A producer that forgets sorted(): joins the notes as the set yields them.
gen_sources_unsorted(d) ==
    LET keys == GroupedKeys(Items(d))
    IN [ i \in 1..Len(keys) |->
           [ url  |-> keys[i],
             note |-> Join(CommaSpace,
                           UnsortedList(GroupedNotes(Items(d), keys[i]))) ] ]

\* BillsFields.gen_sources, materialised by wrapwith=list
BillsFields_gen_sources(d) ==
    LET keys == GroupedKeys(Items(d))
    IN [ i \in 1..Len(keys) |->
           [ url  |-> keys[i],
             note |-> Join(CommaSpace,
                           SortedList(GroupedNotes(Items(d), keys[i]))) ] ]

\* BillsDetailAction.gen_sources, materialised by wrapwith=list
BillsDetailAction_gen_sources(d) ==
    LET keys == GroupedKeys(Items(d))
    IN [ i \in 1..Len(keys) |->
           [ url  |-> keys[i],
             note |-> Join(CommaSpace,
                           SortedList(GroupedNotes(Items(d), keys[i]))) ] ]

\* chainmap['sources'][note] = url: a dict store (a present key keeps its place)
DictStore(d, note, url) ==
    IF \E i \in 1..Len(d) : d[i][1] = note
    THEN [ i \in 1..Len(d) |-> IF d[i][1] = note THEN <<note, url>> ELSE d[i] ]
    ELSE Append(d, <<note, url>>)

(***************************************************************************)
(* Idle values of the parts a specification does not exercise.             *)
(***************************************************************************)
IdlePage ==
    /\ site = <<>>
    /\ pgPc = "start"
    /\ pgCur = 0
    /\ pgRow = 0
    /\ pulling = FALSE
    /\ yielded = <<>>
    /\ fetchLog = <<>>

IdleDetail ==
    /\ bills = <<>>
    /\ dtIdx = 1
    /\ docs = <<>>
    /\ skipped = <<>>
    /\ dtFailure = FALSE

IdleReg ==
    /\ JXN_CONFIGS = <<>>
    /\ defined = <<>>

IdleFields ==
    /\ fPage = [ focus |-> None, text |-> [ present |-> FALSE, s |-> <<>> ] ]
    /\ fFormat = <<>>
    /\ fProduced = None
    /\ fOutcome = [ kind |-> None, exc |-> None, value |-> <<>> ]

IdleOrg ==
    /\ oCfg = <<>>
    /\ oType = <<>>
    /\ oCalled = FALSE
    /\ oOutcome = [ kind |-> None, exc |-> None, value |-> <<>> ]

IdleSrc ==
    /\ sources = <<>>
    /\ emitted = <<>>
    /\ emittedBy = None

IdleMedia ==
    /\ pupa_media = <<>>
    /\ mRow = <<>>
    /\ mServer = <<>>
    /\ mIdx = 1
    /\ media = <<>>
    /\ mHeads = <<>>
    /\ mEnd = None

IdleOverlay ==
    /\ ovHeap = <<>>
    /\ ovLayers = <<>>
    /\ ovClassn = 0
    /\ ovLast = [ op |-> None, layer |-> 0 ]

IdleBuild ==
    /\ bPage = [ views  |-> <<>>,
                 fields |-> [ focus |-> None,
                              text  |-> [ present |-> FALSE, s |-> <<>> ] ] ]
    /\ bStart = <<>>
    /\ bSources = <<>>
    /\ bSeed = None
    /\ bPc = "idle"
    /\ bView = 1
    /\ bDocs = <<>>

IdleButSrc == IdlePage /\ IdleDetail /\ IdleReg /\ IdleFields /\ IdleOrg /\ IdleMedia /\ IdleOverlay /\ IdleBuild
IdleButPage == IdleSrc /\ IdleDetail /\ IdleReg /\ IdleFields /\ IdleOrg /\ IdleMedia /\ IdleOverlay /\ IdleBuild
IdleButDetail == IdleSrc /\ IdlePage /\ IdleReg /\ IdleFields /\ IdleOrg /\ IdleMedia /\ IdleOverlay /\ IdleBuild
IdleButReg == IdleSrc /\ IdlePage /\ IdleDetail /\ IdleFields /\ IdleOrg /\ IdleMedia /\ IdleOverlay /\ IdleBuild
IdleButFields == IdleSrc /\ IdlePage /\ IdleDetail /\ IdleReg /\ IdleOrg /\ IdleMedia /\ IdleOverlay /\ IdleBuild
IdleButOrg == IdleSrc /\ IdlePage /\ IdleDetail /\ IdleReg /\ IdleFields /\ IdleMedia /\ IdleOverlay /\ IdleBuild
IdleButMedia == IdleSrc /\ IdlePage /\ IdleDetail /\ IdleReg /\ IdleFields /\ IdleOrg /\ IdleOverlay /\ IdleBuild
IdleButOverlay == IdleSrc /\ IdlePage /\ IdleDetail /\ IdleReg /\ IdleFields /\ IdleOrg /\ IdleMedia /\ IdleBuild
IdleButBuild == IdleSrc /\ IdlePage /\ IdleDetail /\ IdleReg /\ IdleFields /\ IdleOrg /\ IdleMedia /\ IdleOverlay

InitSrc ==
    /\ IdleSrc
    /\ IdleButSrc

\* A view or table of the document being built records its provenance; the
\* `sources` producer runs once the nested views have contributed.
AddSource(note, url) ==
    /\ emittedBy = None
    /\ \/ \E i \in 1..Len(sources) : sources[i][1] = note
       \/ Len(sources) < MaxSources
    /\ sources' = DictStore(sources, note, url)
    /\ UNCHANGED <<emitted, emittedBy, notSrc>>

GenSourcesFields ==
    /\ emitted' = BillsFields_gen_sources(sources)
    /\ emittedBy' = "BillsFields"
    /\ UNCHANGED <<sources, notSrc>>

GenSourcesAction ==
    /\ emitted' = BillsDetailAction_gen_sources(sources)
    /\ emittedBy' = "BillsDetailAction"
    /\ UNCHANGED <<sources, notSrc>>

\* A fresh accumulator for the next top-level document.
NewDocument ==
    /\ sources # <<>>
    /\ sources' = <<>>
    /\ emitted' = <<>>
    /\ emittedBy' = None
    /\ UNCHANGED notSrc

NextSrc ==
    \/ \E n \in Notes, u \in Urls : AddSource(n, u)
    \/ GenSourcesFields
    \/ GenSourcesAction
    \/ NewDocument

SpecSrc == InitSrc /\ [][NextSrc]_vars

(***************************************************************************)
(* C1: the emitted `sources` list has exactly one record per distinct url  *)
(* of the accumulator, and no other record; the record's note is the notes *)
(* accumulated for that url in strictly ascending lexicographic order,     *)
(* joined with ", ".                                                       *)
(***************************************************************************)
IsAscendingListOf(s, S) ==
    /\ Len(s) = Cardinality(S)
    /\ { s[i] : i \in 1..Len(s) } = S
    /\ \A i \in 1..(Len(s) - 1) : StrLess(s[i], s[i + 1])

C1_SourcesGroupedSortedJoined ==
    emittedBy # None =>
        LET urls == { sources[i][2] : i \in 1..Len(sources) }
        IN /\ \A u \in urls :
                 Cardinality({ i \in 1..Len(emitted) : emitted[i].url = u }) = 1
           /\ \A i \in 1..Len(emitted) :
                 /\ emitted[i].url \in urls
                 /\ LET ns == GroupedNotes(sources, emitted[i].url)
                    IN \E s \in [1..Cardinality(ns) -> ns] :
                         /\ IsAscendingListOf(s, ns)
                         /\ emitted[i].note = Join(CommaSpace, s)

\* 'bill detail, bills search'
C1_Witness ==
    /\ emittedBy = "BillsFields"
    /\ Len(sources) = 3
    /\ Len(emitted) = 2
    /\ \E i \in 1..2 :
         emitted[i] = [ url  |-> "http://x/1",
                        note |-> NoteBillDetail \o CommaSpace \o NoteBillsSearch ]
    /\ sources[1] = <<NoteBillsSearch, "http://x/1">>

(***************************************************************************)
(* Pagination: the pager of a results page and the walk over the pages.    *)
(***************************************************************************)
MaxPages == 3
MaxRows == 2

PageUrl(k) == <<"page", k>>

Anchor(href) == [ tag |-> "a", class |-> "", href |-> href ]
Span(class)  == [ tag |-> "span", class |-> class, href |-> "" ]

PGN_CURRENT_PAGE_CLASS == "rgCurrentPage"

\* The sentinel texts of a result set without records.
NO_RECORDS_FOUND_TEXT_first_only == { "No records were found" }

NO_RECORDS_FOUND_TEXT == { "No records were found", "No records to display." }

\* '//*[contains(@class, "rgCurrentPage")]': the marker elements of a pager
PGN_CURRENT_PAGE_XPATH(pager) ==
    { i \in 1..Len(pager) : pager[i].class = PGN_CURRENT_PAGE_CLASS }

Least(S) == CHOOSE m \in S : \A x \in S : m <= x

\* An xpath that drops the following-sibling axis: the first anchor of the pager.
PGN_NEXT_PAGE_XPATH_any_anchor(pager) ==
    LET as == { j \in 1..Len(pager) : pager[j].tag = "a" /\ pager[j].href # "" }
    IN IF as = {} \/ PGN_CURRENT_PAGE_XPATH(pager) = {} THEN ""
       ELSE pager[Least(as)].href

\* 'string(<marker>/following-sibling::a[1]/@href)': the href of the first anchor
\* after a marker, "" when there is none (string() of an empty node-set).
PGN_NEXT_PAGE_XPATH(pager) ==
    LET after(i) == { j \in (i + 1)..Len(pager) : pager[j].tag = "a" }
        firsts   == { Least(after(i)) :
                        i \in { m \in PGN_CURRENT_PAGE_XPATH(pager) : after(m) # {} } }
        hrefs    == { j \in firsts : pager[j].href # "" }
    IN IF hrefs = {} THEN "" ELSE pager[Least(hrefs)].href

\* The pager of page k of n. Pages before the last link every other page; the last
\* page's marker is followed by nothing, by a non-anchor, or by an anchor without
\* href, or the page has no pager at all.
Pager(k, n, lastStyle, separators) ==
    LET entry(j) == IF j = k THEN <<Span(PGN_CURRENT_PAGE_CLASS)>>
                    ELSE <<Anchor(PageUrl(j))>>
        sep(j)   == IF separators /\ j < n THEN <<Span("")>> ELSE <<>>
        RECURSIVE upto(_)
        upto(j)  == IF j = 0 THEN <<>> ELSE upto(j - 1) \o entry(j) \o sep(j)
        tail     == CASE lastStyle = "spanafter" -> <<Span("")>>
                      [] lastStyle = "nohref"    -> <<Anchor("")>>
                      [] OTHER                   -> <<>>
    IN IF k = n /\ lastStyle = "nopager" THEN <<>>
       ELSE IF k = n THEN upto(n) \o tail
       ELSE upto(n)

LastStyles == { "markerlast", "spanafter", "nohref", "nopager" }

\* What the sites render for a result set without records.
RenderedNoRecords == { "No records were found", "No records to display." }

\* A page without records shows that text in the single row of its table.
PageKinds ==
    [ body : { "Legislation" }, rows : 0..MaxRows ]
      \cup [ body : RenderedNoRecords, rows : { 1 } ]

Sites ==
    { [ k \in 1..n |->
          [ url   |-> PageUrl(k),
            body  |-> kinds[k].body,
            rows  |-> kinds[k].rows,
            pager |-> Pager(k, n, ls, sp) ] ] :
        n \in 1..MaxPages, ls \in LastStyles, sp \in BOOLEAN,
        kinds \in [1..MaxPages -> PageKinds] }

\* The page the site serves at a url.
Fetch(url) == CHOOSE k \in 1..Len(site) : site[k].url = url

\* Whether the page body carries one of the sentinel texts.
NoRecordsFound(page) == page.body \in NO_RECORDS_FOUND_TEXT

\* The rows a Table yields for a response: none for a page found to be without
\* records.
TableRows(k) ==
    IF NoRecordsFound(site[k]) THEN <<>>
    ELSE [ r \in 1..site[k].rows |-> <<k, r>> ]

InitPage ==
    /\ site \in Sites
    /\ pgPc = "start"
    /\ pgCur = 0
    /\ pgRow = 0
    /\ pulling = FALSE
    /\ yielded = <<>>
    /\ fetchLog = <<>>
    /\ IdleButPage

\* The consumer asks for the next document.
Pull ==
    /\ ~pulling
    /\ pulling' = TRUE
    /\ UNCHANGED <<site, pgPc, pgCur, pgRow, yielded, fetchLog, notPage>>

\* gen_responses: the search is submitted and the first results page obtained.
FirstResponse ==
    /\ pulling
    /\ pgPc = "start"
    /\ fetchLog' = Append(fetchLog, PageUrl(1))
    /\ pgCur' = 1
    /\ pgRow' = 0
    /\ pgPc' = "rows"
    /\ UNCHANGED <<site, pulling, yielded, notPage>>

\* A walk that requests the following page as soon as it has handed out the
\* last row of a page, before the consumer asks for more.
YieldRow_prefetching ==
    /\ pulling
    /\ pgPc = "rows"
    /\ pgRow < Len(TableRows(pgCur))
    /\ yielded' = Append(yielded, TableRows(pgCur)[pgRow + 1])
    /\ pulling' = FALSE
    /\ IF /\ pgRow + 1 = Len(TableRows(pgCur))
          /\ PGN_NEXT_PAGE_XPATH(site[pgCur].pager) # ""
       THEN /\ fetchLog' = Append(fetchLog, PGN_NEXT_PAGE_XPATH(site[pgCur].pager))
            /\ pgCur' = Fetch(PGN_NEXT_PAGE_XPATH(site[pgCur].pager))
            /\ pgRow' = 0
       ELSE /\ pgRow' = pgRow + 1
            /\ UNCHANGED <<pgCur, fetchLog>>
    /\ UNCHANGED <<site, pgPc, notPage>>

\* gen_docs_from_response: yield from table, one row per pull.
YieldRow ==
    /\ pulling
    /\ pgPc = "rows"
    /\ pgRow < Len(TableRows(pgCur))
    /\ yielded' = Append(yielded, TableRows(pgCur)[pgRow + 1])
    /\ pgRow' = pgRow + 1
    /\ pulling' = FALSE
    /\ UNCHANGED <<site, pgPc, pgCur, fetchLog, notPage>>

\* The table is exhausted: control returns to the loop over gen_responses.
TableExhausted ==
    /\ pulling
    /\ pgPc = "rows"
    /\ pgRow >= Len(TableRows(pgCur))
    /\ pgPc' = "next"
    /\ UNCHANGED <<site, pgCur, pgRow, pulling, yielded, fetchLog, notPage>>

\* gen_responses, find-next: follow the link after the current-page marker.
NextResponse ==
    /\ pulling
    /\ pgPc = "next"
    /\ ~NoRecordsFound(site[pgCur])
    /\ PGN_NEXT_PAGE_XPATH(site[pgCur].pager) # ""
    /\ fetchLog' = Append(fetchLog, PGN_NEXT_PAGE_XPATH(site[pgCur].pager))
    /\ pgCur' = Fetch(PGN_NEXT_PAGE_XPATH(site[pgCur].pager))
    /\ pgRow' = 0
    /\ pgPc' = "rows"
    /\ UNCHANGED <<site, pulling, yielded, notPage>>

\* gen_responses, terminal: no records, or no link after the marker.
EndOfResponses ==
    /\ pulling
    /\ pgPc = "next"
    /\ \/ NoRecordsFound(site[pgCur])
       \/ PGN_NEXT_PAGE_XPATH(site[pgCur].pager) = ""
    /\ pgPc' = "done"
    /\ pulling' = FALSE
    /\ UNCHANGED <<site, pgCur, pgRow, yielded, fetchLog, notPage>>

\* next() on the exhausted generator: StopIteration again, nothing else.
PullExhausted ==
    /\ pulling
    /\ pgPc = "done"
    /\ pulling' = FALSE
    /\ UNCHANGED <<site, pgPc, pgCur, pgRow, yielded, fetchLog, notPage>>

NextPage ==
    \/ Pull
    \/ FirstResponse
    \/ YieldRow
    \/ TableExhausted
    \/ NextResponse
    \/ EndOfResponses
    \/ PullExhausted

SpecPage == InitPage /\ [][NextPage]_vars

\* All rows of pages 1..k in page order, each page's rows in document order.
RECURSIVE RowsUpTo(_)
RowsUpTo(k) == IF k = 0 THEN <<>> ELSE RowsUpTo(k - 1) \o TableRows(k)

(***************************************************************************)
(* C3: pagination terminates. When the page being walked has no link after *)
(* its current-page marker, the walk ends after that page's rows; a page   *)
(* is never requested twice nor after the end, so at the end the requests  *)
(* are exactly the pages walked, one each, and with no sentinel page in    *)
(* the chain their number is the number of pages of the site.              *)
(***************************************************************************)
C3_PaginationTerminates ==
    /\ fetchLog = [ k \in 1..pgCur |-> PageUrl(k) ]
    /\ Len(fetchLog) <= Len(site)
    /\ (pgPc \in {"next", "done"} /\ PGN_NEXT_PAGE_XPATH(site[pgCur].pager) = "")
          => /\ pgCur = Len(fetchLog)
             /\ yielded = RowsUpTo(pgCur)
    /\ pgPc = "done" =>
          /\ \/ PGN_NEXT_PAGE_XPATH(site[pgCur].pager) = ""
             \/ NoRecordsFound(site[pgCur])
          /\ (\A k \in 1..Len(site) : ~NoRecordsFound(site[k]))
                => /\ Len(fetchLog) = Len(site)
                   /\ yielded = RowsUpTo(Len(site))

C3_Witness ==
    /\ pgPc = "done"
    /\ Len(site) = 3
    /\ Len(fetchLog) = 3
    /\ Len(yielded) = 4
    /\ pulling
    /\ PGN_NEXT_PAGE_XPATH(site[3].pager) = ""
    /\ site[3].pager # <<>>

(***************************************************************************)
(* C4: when the first results page carries a "no records found" sentinel,  *)
(* the search yields no document, requests no page beyond the first, and   *)
(* the first pull ends the sequence (the generator is in its terminal      *)
(* state as soon as that pull returns).                                    *)
(***************************************************************************)
C4_NoRecordsIsEmptyResult ==
    (Len(site) >= 1 /\ site[1].body \in RenderedNoRecords) =>
        /\ yielded = <<>>
        /\ Len(fetchLog) <= 1
        /\ pgPc \in {"start", "rows", "next", "done"}
        /\ (~pulling /\ pgPc # "start") => (pgPc = "done" /\ fetchLog = <<PageUrl(1)>>)

C4_Witness ==
    /\ Len(site) = 2
    /\ site[1].body = "No records to display."
    /\ PGN_NEXT_PAGE_XPATH(site[1].pager) = PageUrl(2)
    /\ pgPc = "done"
    /\ ~pulling

(***************************************************************************)
(* Bill detail documents: the `actions` producer and the skip-document     *)
(* signal in the enclosing sequence of documents.                          *)
(***************************************************************************)
MaxBills == 3
MaxActions == 2

Return(v) == [ kind |-> "return", exc |-> None, value |-> v ]
Raise(e)  == [ kind |-> "raise", exc |-> e, value |-> <<>> ]

\* list(self.Form(self)): the action rows of bill i, in table order
ActionRows(i) == [ j \in 1..bills[i] |-> <<"action", i, j>> ]

\* An `actions` producer without the emptiness check.
gen_action_no_skip(actions) == Return(actions)

\* BillsDetailView.gen_action
gen_action(actions) ==
    IF actions = <<>> THEN Raise("SkipDocument") ELSE Return(actions)

InitDetail ==
    /\ bills \in UNION { [1..n -> 0..MaxActions] : n \in 1..MaxBills }
    /\ dtIdx = 1
    /\ docs = <<>>
    /\ skipped = <<>>
    /\ dtFailure = FALSE
    /\ IdleButDetail

\* build() of the detail document of row dtIdx ends normally: it is yielded.
YieldDetailDocument ==
    /\ dtIdx <= Len(bills)
    /\ ~dtFailure
    /\ gen_action(ActionRows(dtIdx)).kind = "return"
    /\ docs' = Append(docs, [ bill    |-> dtIdx,
                              actions |-> gen_action(ActionRows(dtIdx)).value ])
    /\ dtIdx' = dtIdx + 1
    /\ UNCHANGED <<bills, skipped, dtFailure, notDetail>>

\* build() is cut short by SkipDocument: nothing is yielded for the row and the
\* enclosing sequence advances to the next one.
OmitDetailDocument ==
    /\ dtIdx <= Len(bills)
    /\ ~dtFailure
    /\ gen_action(ActionRows(dtIdx)).kind = "raise"
    /\ IF gen_action(ActionRows(dtIdx)).exc = "SkipDocument"
       THEN /\ skipped' = Append(skipped, dtIdx)
            /\ dtIdx' = dtIdx + 1
            /\ UNCHANGED dtFailure
       ELSE /\ dtFailure' = TRUE
            /\ UNCHANGED <<skipped, dtIdx>>
    /\ UNCHANGED <<bills, docs, notDetail>>

NextDetail ==
    \/ YieldDetailDocument
    \/ OmitDetailDocument

SpecDetail == InitDetail /\ [][NextDetail]_vars

(***************************************************************************)
(* C2: a bill whose nested Form yields zero action rows raises the         *)
(* skip-document signal: no document is emitted for it, no failure is      *)
(* reported, and the documents yielded are those of the rows with action   *)
(* rows, in row order, as if the skipped rows were absent.                 *)
(***************************************************************************)
C2_EmptyActionsSkipsDocument ==
    LET done   == 1..(dtIdx - 1)
        empty  == { i \in done : bills[i] = 0 }
        others == done \ empty
    IN /\ ~dtFailure
       /\ { skipped[k] : k \in 1..Len(skipped) } = empty
       /\ Len(docs) = Cardinality(others)
       /\ \A k \in 1..Len(docs) :
            /\ docs[k].bill \in others
            /\ Len(docs[k].actions) = bills[docs[k].bill]
            /\ docs[k].actions # <<>>
            /\ k > 1 => docs[k - 1].bill < docs[k].bill

C2_Witness ==
    /\ Len(bills) = 3
    /\ bills[2] = 0
    /\ dtIdx = 4
    /\ skipped = <<2>>
    /\ Len(docs) = 2
    /\ docs[2].bill = 3

(***************************************************************************)
(* The jurisdiction registry filled by ConfigMeta.__new__.                 *)
(***************************************************************************)
MaxTypes == 2

\* A root_url as the pieces urlparse tells apart:
\* scheme, "://", network location, then the path pieces.
RootUrls ==
    { <<"http", "://", "a.legistar.com", "/">>,
      <<"https", "://", "a.legistar.com", "/", "Legislation.aspx">>,
      <<"http", "://", "b.legistar.com", "/">>,
      <<"c.legistar.com", "/">> }

DivisionIds == { "ocd-division/country:us/place:a" }

NicknameLists == { <<>>, <<"nyc">>, <<"nyc", "a.legistar.com">> }

\* attrs.get('root_url') of a class body that sets none
NoUrl == <<>>

\* The attributes a class body may give (attrs of ConfigMeta.__new__).
ClassBodies ==
    [ root_url    : RootUrls \cup { NoUrl },
      division_id : DivisionIds \cup { None },
      nicknames   : NicknameLists ]

\* urlparse(url).netloc: what follows "scheme://" up to the path; '' for a url
\* without "//".
Netloc(url) ==
    IF Len(url) >= 3 /\ url[2] = "://" /\ url[3] # "/" THEN url[3] ELSE ""

\* Config.get_host of the type whose class body is attrs
get_host(attrs) == Netloc(attrs.root_url)

\* d[key] = value on a dict held as a function
DictSet(d, key, value) ==
    [ k \in DOMAIN d \cup { key } |-> IF k = key THEN value ELSE d[k] ]

RECURSIVE SetAll(_, _, _)
SetAll(d, keys, value) ==
    IF keys = <<>> THEN d
    ELSE SetAll(DictSet(d, Head(keys), value), Tail(keys), value)

\* A registration that keeps the entry a key already has.
RECURSIVE SetDefaultAll(_, _, _)
SetDefaultAll(d, keys, value) ==
    IF keys = <<>> THEN d
    ELSE SetDefaultAll(IF Head(keys) \in DOMAIN d THEN d
                       ELSE DictSet(d, Head(keys), value), Tail(keys), value)

ConfigMeta_new_setdefault(registry, attrs, cls) ==
    LET byHost == IF attrs.root_url # NoUrl THEN <<get_host(attrs)>> ELSE <<>>
        byOcd  == IF attrs.division_id # None THEN <<attrs.division_id>> ELSE <<>>
    IN SetDefaultAll(registry, byHost \o byOcd \o attrs.nicknames, cls)

\* A registration whose division_id test is an elif of the root_url test.
ConfigMeta_new_elif(registry, attrs, cls) ==
    LET byHost == IF attrs.root_url # NoUrl /\ attrs.division_id = None
                  THEN <<get_host(attrs)>> ELSE <<>>
        byOcd  == IF attrs.division_id # None THEN <<attrs.division_id>> ELSE <<>>
    IN SetAll(registry, byHost \o byOcd \o attrs.nicknames, cls)

\* ConfigMeta.__new__: the registry after type cls with class body attrs is made
ConfigMeta_new(registry, attrs, cls) ==
    LET byHost == IF attrs.root_url # NoUrl THEN <<get_host(attrs)>> ELSE <<>>
        byOcd  == IF attrs.division_id # None THEN <<attrs.division_id>> ELSE <<>>
    IN SetAll(registry, byHost \o byOcd \o attrs.nicknames, cls)

\* lookup(key): the registered type, or ConfigNotFound
Lookup(key) ==
    IF key \in DOMAIN JXN_CONFIGS
    THEN [ found |-> TRUE, type |-> JXN_CONFIGS[key] ]
    ELSE [ found |-> FALSE, type |-> 0 ]

\* The base Config class itself: no root_url, division_id or nicknames.
ConfigBody == [ root_url |-> NoUrl, division_id |-> None, nicknames |-> <<>> ]

InitReg ==
    /\ defined = <<ConfigBody>>
    /\ JXN_CONFIGS = ConfigMeta_new(<<>>, ConfigBody, 1)
    /\ IdleButReg

\* class X(Config): <attrs>
DefineConfig(attrs) ==
    /\ Len(defined) < MaxTypes + 1
    /\ defined' = Append(defined, attrs)
    /\ JXN_CONFIGS' = ConfigMeta_new(JXN_CONFIGS, attrs, Len(defined) + 1)
    /\ UNCHANGED notReg

NextReg == \E attrs \in ClassBodies : DefineConfig(attrs)

SpecReg == InitReg /\ [][NextReg]_vars

\* The keys a type carries: its host, its division_id, its nicknames.
KeysOf(attrs) ==
    (IF attrs.root_url # NoUrl THEN { get_host(attrs) } ELSE {})
      \cup (IF attrs.division_id # None THEN { attrs.division_id } ELSE {})
      \cup { attrs.nicknames[i] : i \in 1..Len(attrs.nicknames) }

Carriers(key) == { i \in 1..Len(defined) : key \in KeysOf(defined[i]) }

(***************************************************************************)
(* C5 as stated: once a type is registered under the host of its root_url, *)
(* every later lookup of that host returns that type, whatever types are   *)
(* defined afterwards.                                                     *)
(***************************************************************************)
C5_HostLookupNeverChanges ==
    \A i \in 1..Len(defined) :
        defined[i].root_url # NoUrl =>
            Lookup(get_host(defined[i])) = [ found |-> TRUE, type |-> i ]

(***************************************************************************)
(* C5 amended: once a type is registered under the host h of its root_url, *)
(* a lookup of h never fails, and it returns that type as long as no type  *)
(* defined later carries h as its host, division_id or nickname.           *)
(***************************************************************************)
C5_HostLookupUntilRedefined ==
    \A i \in 1..Len(defined) :
        defined[i].root_url # NoUrl =>
            /\ Lookup(get_host(defined[i])).found
            /\ (\A j \in (i + 1)..Len(defined) :
                    get_host(defined[i]) \notin KeysOf(defined[j]))
                 => Lookup(get_host(defined[i])).type = i

C5_Witness ==
    /\ Len(defined) = 3
    /\ defined[2].root_url = <<"http", "://", "a.legistar.com", "/">>
    /\ defined[2].division_id # None
    /\ defined[3].root_url = <<"http", "://", "b.legistar.com", "/">>
    /\ Lookup("a.legistar.com") = [ found |-> TRUE, type |-> 2 ]

(***************************************************************************)
(* C6: after any sequence of definitions every key carried by some type    *)
(* maps to the most recently defined type that carries it (its host, its   *)
(* division_id, each of its nicknames), and no other key has an entry.     *)
(***************************************************************************)
C6_KeysMapToLatestCarrier ==
    /\ \A i \in 1..Len(defined) : \A k \in KeysOf(defined[i]) :
          /\ k \in DOMAIN JXN_CONFIGS
          /\ JXN_CONFIGS[k] \in Carriers(k)
          /\ \A j \in Carriers(k) : j <= JXN_CONFIGS[k]
    /\ \A k \in DOMAIN JXN_CONFIGS : Carriers(k) # {}

C6_Witness ==
    /\ Len(defined) = 3
    /\ defined[2].root_url = <<"http", "://", "a.legistar.com", "/">>
    /\ defined[2].nicknames = <<"nyc">>
    /\ defined[3].nicknames = <<"nyc", "a.legistar.com">>
    /\ defined[3].root_url = NoUrl
    /\ JXN_CONFIGS["a.legistar.com"] = 3
    /\ JXN_CONFIGS["nyc"] = 3

(***************************************************************************)
(* Field producers of a bill document: dates and sponsors.                 *)
(*                                                                         *)
(* A date text is modelled as its tokens (digit groups and separator       *)
(* characters), a format as its directives and literal characters; the     *)
(* sponsors text is modelled character by character.                       *)
(***************************************************************************)
MaxSponsorsLen == 4

\* get_field_text: None, or the text the page renders for the field
NoText == [ present |-> FALSE, s |-> <<>> ]
Text(s) == [ present |-> TRUE, s |-> s ]

Num(n) == [ lit |-> "", num |-> n ]
Lit(c) == [ lit |-> c, num |-> 0 ]

\* '%m/%d/%Y' and '%Y-%m-%d'
FormatUS  == <<"%m", "/", "%d", "/", "%Y">>
FormatISO == <<"%Y", "-", "%m", "-", "%d">>
Formats == { FormatUS, FormatISO }

DateTexts ==
    { <<Num(a), Lit(c), Num(b), Lit(c), Num(d)>> :
        a \in {2, 13, 2014}, b \in {2, 30}, d \in {1, 32, 2014}, c \in {"/", "-"} }
      \cup { <<>>, <<Num(2), Lit("/"), Num(2)>> }

DateLabels ==
    { "intro_date", "file_created", "agenda", "enactment_date",
      "final_action", "date" }

\* Whether one token satisfies one item of the format.
TokenMatches(tok, item) ==
    CASE item = "%m" -> tok.lit = "" /\ tok.num \in 1..12
      [] item = "%d" -> tok.lit = "" /\ tok.num \in 1..31
      [] item = "%Y" -> tok.lit = "" /\ tok.num \in 1000..9999
      [] OTHER       -> tok.lit = item

\* Whether the whole text matches the whole format.
MatchesFormat(text, fmt) ==
    /\ Len(text) = Len(fmt)
    /\ \A i \in 1..Len(fmt) : TokenMatches(text[i], fmt[i])

FieldOf(text, fmt, item) ==
    text[CHOOSE i \in 1..Len(fmt) : fmt[i] = item].num

DaysInMonth(y, m) ==
    IF m = 2
    THEN (IF (y % 4 = 0 /\ y % 100 # 0) \/ y % 400 = 0 THEN 29 ELSE 28)
    ELSE IF m \in {4, 6, 9, 11} THEN 30 ELSE 31

\* datetime.strptime(text, fmt): the datetime, or ValueError
strptime(text, fmt) ==
    IF ~MatchesFormat(text, fmt) THEN Raise("ValueError")
    ELSE LET y == FieldOf(text, fmt, "%Y")
             m == FieldOf(text, fmt, "%m")
             d == FieldOf(text, fmt, "%d")
         IN IF d > DaysInMonth(y, m) THEN Raise("ValueError")
            ELSE Return(<<[ year |-> y, month |-> m, day |-> d, tz |-> None ]>>)

\* cfg.datetime_add_tz(dt): the same datetime in the jurisdiction's time zone
datetime_add_tz(dt) == [ dt EXCEPT !.tz = "jurisdiction" ]

\* get_field_text(label): the page renders text for at most its focus field
get_field_text(page, label) ==
    IF page.focus = label THEN page.text ELSE NoText

\* A _get_date that swallows the parse error and gives None.
_get_date_lenient(page, fmt, label_text) ==
    LET text == get_field_text(page, label_text)
    IN IF text.present
       THEN LET dt == strptime(text.s, fmt)
            IN IF dt.kind = "raise" THEN Return(<<>>)
               ELSE Return(<<datetime_add_tz(dt.value[1])>>)
       ELSE Return(<<>>)

\* DateGetter._get_date; a scalar result is held as a list of zero items (None)
\* or one item
_get_date(page, fmt, label_text) ==
    LET text == get_field_text(page, label_text)
    IN IF text.present
       THEN LET dt == strptime(text.s, fmt)
            IN IF dt.kind = "raise" THEN dt
               ELSE Return(<<datetime_add_tz(dt.value[1])>>)
       ELSE Return(<<>>)

\* ---- sponsors ----
IsSpace(c) == c \in {9, 10, 11, 12, 13, 32}

RECURSIVE LStrip(_)
LStrip(s) == IF s # <<>> /\ IsSpace(Head(s)) THEN LStrip(Tail(s)) ELSE s

RECURSIVE RStrip(_)
RStrip(s) ==
    IF s # <<>> /\ IsSpace(s[Len(s)]) THEN RStrip(SubSeq(s, 1, Len(s) - 1)) ELSE s

\* str.strip()
Strip(s) == RStrip(LStrip(s))

\* re.split(r',\s+', s): cut at every comma that is followed by whitespace, the
\* comma and all the whitespace after it consumed
RECURSIVE SplitCommaSpaces(_, _)
SplitCommaSpaces(s, cur) ==
    IF s = <<>> THEN <<cur>>
    ELSE IF Head(s) = 44 /\ Len(s) >= 2 /\ IsSpace(s[2])
         THEN <<cur>> \o SplitCommaSpaces(LStrip(Tail(s)), <<>>)
         ELSE SplitCommaSpaces(Tail(s), Append(cur, Head(s)))

re_split(s) == SplitCommaSpaces(s, <<>>)

RECURSIVE StripAndKeep(_)
StripAndKeep(parts) ==
    IF parts = <<>> THEN <<>>
    ELSE (IF Strip(Head(parts)) # <<>> THEN <<[ name |-> Strip(Head(parts)) ]>>
          ELSE <<>>) \o StripAndKeep(Tail(parts))

\* A sponsors producer that forgets name.strip().
gen_sponsors_unstripped(page) ==
    LET sponsors == get_field_text(page, "sponsors")
    IN IF ~sponsors.present THEN Raise("TypeError")
       ELSE Return(LET parts == re_split(sponsors.s)
                   IN [ i \in 1..Len(parts) |-> [ name |-> parts[i] ] ])

\* BillsDetailView.gen_sponsors, materialised by wrapwith=list; re.split of None
\* raises TypeError
gen_sponsors(page) ==
    LET sponsors == get_field_text(page, "sponsors")
    IN IF ~sponsors.present THEN Raise("TypeError")
       ELSE Return(StripAndKeep(re_split(sponsors.s)))

\* "A" "B" "," " "
SponsorChars == {65, 66, 44, 32}

\* 'John Smith, Jane Doe'
JohnSmithJaneDoe ==
    <<74,111,104,110,32,83,109,105,116,104,44,32,74,97,110,101,32,68,111,101>>
JohnSmith == <<74,111,104,110,32,83,109,105,116,104>>
JaneDoe == <<74,97,110,101,32,68,111,101>>

SponsorTexts ==
    UNION { [1..n -> SponsorChars] : n \in 0..MaxSponsorsLen }
      \cup { JohnSmithJaneDoe }

InitFields ==
    /\ \/ /\ fPage \in [ focus : DateLabels, text : { Text(t) : t \in DateTexts } ]
          /\ fFormat \in Formats
       \/ /\ fPage \in [ focus : {"sponsors"}, text : { Text(t) : t \in SponsorTexts } ]
          /\ fFormat = FormatUS
       \/ /\ fPage = [ focus |-> None, text |-> NoText ]
          /\ fFormat \in Formats
    /\ fProduced = None
    /\ fOutcome = [ kind |-> None, exc |-> None, value |-> <<>> ]
    /\ IdleButFields

Produce(name, outcome) ==
    /\ fProduced = None
    /\ fProduced' = name
    /\ fOutcome' = outcome
    /\ UNCHANGED <<fPage, fFormat, notFields>>

\* BillsFields.get_intro_data
get_intro_data == Produce("intro_date", _get_date(fPage, fFormat, "intro_date"))

\* BillsFields.get_file_created
get_file_created == Produce("file_created", _get_date(fPage, fFormat, "file_created"))

\* BillsDetailView.get_agenda_date
get_agenda_date == Produce("agenda", _get_date(fPage, fFormat, "agenda"))

\* BillsDetailView.get_enactment_date
get_enactment_date ==
    Produce("enactment_date", _get_date(fPage, fFormat, "enactment_date"))

\* BillsDetailView.get_final_action
get_final_action == Produce("final_action", _get_date(fPage, fFormat, "final_action"))

\* BillsDetailTableRow.get_date
get_date == Produce("date", _get_date(fPage, fFormat, "date"))

\* BillsDetailView.gen_sponsors
ProduceSponsors == Produce("sponsors", gen_sponsors(fPage))

NextFields ==
    \/ get_intro_data
    \/ get_file_created
    \/ get_agenda_date
    \/ get_enactment_date
    \/ get_final_action
    \/ get_date
    \/ ProduceSponsors

SpecFields == InitFields /\ [][NextFields]_vars

\* Whether needle occurs in hay.
Contains(hay, needle) ==
    \E i \in 0..(Len(hay) - Len(needle)) :
        SubSeq(hay, i + 1, i + Len(needle)) = needle

\* Whether the strings of parts occur in text one after the other, in order.
RECURSIVE InTextOrder(_, _)
InTextOrder(parts, text) ==
    IF parts = <<>> THEN TRUE
    ELSE \E i \in 0..(Len(text) - Len(parts[1])) :
            /\ SubSeq(text, i + 1, i + Len(parts[1])) = parts[1]
            /\ InTextOrder(Tail(parts), SubSeq(text, i + Len(parts[1]) + 1, Len(text)))

C9_UnparsableDateIsFatal ==
    (/\ fProduced \in DateLabels
     /\ fPage.focus = fProduced
     /\ fPage.text.present
     /\ ~MatchesFormat(fPage.text.s, fFormat))
        => fOutcome = Raise("ValueError")

C9_Witness ==
    /\ fProduced = "enactment_date"
    /\ fPage.focus = "enactment_date"
    /\ fFormat = FormatUS
    /\ fPage.text = Text(<<Num(2014), Lit("-"), Num(2), Lit("-"), Num(1)>>)
    /\ fOutcome.kind = "raise"

(***************************************************************************)
(* C10: a producer whose field has no text on the page (the lookup gives   *)
(* None) returns None or an empty value and raises nothing.                *)
(***************************************************************************)
C10_MissingTextNeverRaises ==
    (fProduced # None /\ ~get_field_text(fPage, fProduced).present)
        => (fOutcome.kind = "return" /\ fOutcome.value = <<>>)

(***************************************************************************)
(* Config.get_org_classification: from the org table's `type` text to a    *)
(* pupa classification.                                                    *)
(***************************************************************************)
MaxWords == 2

\* Words the `type` texts are made of: Department, City, Council, Task, Force, Board, Subcommittee
Words ==
    { <<68,101,112,97,114,116,109,101,110,116>>,
      <<67,105,116,121>>,
      <<67,111,117,110,99,105,108>>,
      <<84,97,115,107>>,
      <<70,111,114,99,101>>,
      <<66,111,97,114,100>>,
      <<83,117,98,99,111,109,109,105,116,116,101,101>> }

\* The `type` texts: up to MaxWords words with single spaces between them.
RECURSIVE Phrases(_)
Phrases(n) ==
    IF n = 1 THEN Words
    ELSE Phrases(n - 1) \cup { p \o <<32>> \o w : p \in Phrases(n - 1), w \in Words }

OrgTypes == Phrases(MaxWords)

\* ORG_DEFAULT_CLASSIFICATIONS: 'Department': 'commission', 'Clerk': 'commission', 'Executive Office': 'commission', 'Primary Legislative Body': 'legislature', 'Secondary Legislative Body': 'legislature', 'City Council': 'legislature', 'Board of Supervisors': 'legislature', 'Agency': 'commission'
ORG_DEFAULT_CLASSIFICATIONS ==
    (<<68,101,112,97,114,116,109,101,110,116>> :> "commission")
      @@ (<<67,108,101,114,107>> :> "commission")
      @@ (<<69,120,101,99,117,116,105,118,101,32,79,102,102,105,99,101>> :> "commission")
      @@ (<<80,114,105,109,97,114,121,32,76,101,103,105,115,108,97,116,105,118,101,32,66,111,100,121>> :> "legislature")
      @@ (<<83,101,99,111,110,100,97,114,121,32,76,101,103,105,115,108,97,116,105,118,101,32,66,111,100,121>> :> "legislature")
      @@ (<<67,105,116,121,32,67,111,117,110,99,105,108>> :> "legislature")
      @@ (<<66,111,97,114,100,32,111,102,32,83,117,112,101,114,118,105,115,111,114,115>> :> "legislature")
      @@ (<<65,103,101,110,99,121>> :> "commission")

\* 'Task Force'
TaskForce == <<84,97,115,107,32,70,111,114,99,101>>

\* 'Department'
Department == <<68,101,112,97,114,116,109,101,110,116>>

\* ORG_CLASSIFICATIONS of a jurisdiction: absent, or a dict of its own
JurisdictionClassifications ==
    { <<>>, (TaskForce :> "committee"), (Department :> "committee") }

\* str.lower() (ASCII)
Lower(s) == [ i \in 1..Len(s) |-> IF s[i] \in 65..90 THEN s[i] + 32 ELSE s[i] ]

\* _ORG_CLASSIFICATIONS.get(orgtype): the new_child layer first, then the defaults
ChainGet(classn, key) ==
    IF key \in DOMAIN classn THEN <<classn[key]>>
    ELSE IF key \in DOMAIN ORG_DEFAULT_CLASSIFICATIONS
         THEN <<ORG_DEFAULT_CLASSIFICATIONS[key]>>
         ELSE <<>>

\* ('legislature', 'party', 'committee', 'commission')
GuessWords ==
    << [ word |-> <<108,101,103,105,115,108,97,116,117,114,101>>, classn |-> "legislature" ],
       [ word |-> <<112,97,114,116,121>>, classn |-> "party" ],
       [ word |-> <<99,111,109,109,105,116,116,101,101>>, classn |-> "committee" ],
       [ word |-> <<99,111,109,109,105,115,115,105,111,110>>, classn |-> "commission" ] >>

\* other = [('board', 'commission')]
OtherWords == << [ word |-> <<98,111,97,114,100>>, classn |-> "commission" ] >>

RaiseMsg(e, args) == [ kind |-> "raise", exc |-> e, value |-> args ]

\* Config.get_org_classification. The second loop tests `work`, a name bound
\* nowhere: its first iteration raises NameError, so the ValueError after the
\* loop is reached only with `other` empty.
get_org_classification(classifications, orgtype) ==
    LET classn     == ChainGet(classifications, orgtype)
        type_lower == Lower(orgtype)
        guessed    == { i \in 1..Len(GuessWords) :
                          Contains(type_lower, GuessWords[i].word) }
    IN IF classn # <<>> THEN Return(classn)
       ELSE IF guessed # {} THEN Return(<<GuessWords[Least(guessed)].classn>>)
       ELSE IF OtherWords # <<>> THEN Raise("NameError")
       ELSE RaiseMsg("ValueError", <<orgtype>>)

InitOrg ==
    /\ oCfg \in JurisdictionClassifications
    /\ oType \in OrgTypes
    /\ oCalled = FALSE
    /\ oOutcome = [ kind |-> None, exc |-> None, value |-> <<>> ]
    /\ IdleButOrg

\* cfg.get_org_classification(orgtype)
Classify ==
    /\ ~oCalled
    /\ oCalled' = TRUE
    /\ oOutcome' = get_org_classification(oCfg, oType)
    /\ UNCHANGED <<oCfg, oType, notOrg>>

NextOrg == Classify

SpecOrg == InitOrg /\ [][NextOrg]_vars

(***************************************************************************)
(* C8: when orgtype has no entry in the jurisdiction's or the default      *)
(* mapping and holds no heuristic keyword, the call ends in the            *)
(* unmapped-classification ValueError whose message names the orgtype; no  *)
(* other failure and no classification comes out.                          *)
(***************************************************************************)
C8_UnmappedTypeRaisesValueError ==
    (/\ oCalled
     /\ oType \notin DOMAIN oCfg
     /\ oType \notin DOMAIN ORG_DEFAULT_CLASSIFICATIONS
     /\ \A i \in 1..Len(GuessWords) : ~Contains(Lower(oType), GuessWords[i].word)
     /\ \A i \in 1..Len(OtherWords) : ~Contains(Lower(oType), OtherWords[i].word))
        => oOutcome = RaiseMsg("ValueError", <<oType>>)

(***************************************************************************)
(* The `media` list of an action row (BillsDetailTableRow.gen_media).      *)
(***************************************************************************)
MaxMedia == 2

MediaLabels == { "Video", "Audio", "Minutes" }

MediaUrls == { <<"http", "://", "x", "/", "v.mp4">>,
               <<"http", "://", "x", "/", "m.pdf">> }

ContentTypes == { "video/mp4", "application/pdf" }

\* The pupa_media lists a Config may declare: labels in order, up to MaxMedia.
RECURSIVE MediaLists(_)
MediaLists(n) ==
    IF n = 0 THEN { <<>> }
    ELSE MediaLists(n - 1) \cup
         { Append(l, x) : l \in { m \in MediaLists(n - 1) : Len(m) = n - 1 },
                          x \in MediaLabels }

\* self.get_field_data(label): the accessor of the row's cell under that label
get_field_data(row, label) == row[label]

\* ElementAccessor.get_url(): the href of the cell's link, None without a link
get_url(data) == data.url

\* ElementAccessor.get_text()
get_text(data) == data.text

\* self.client.head(url=url)
head(server, url) == [ headers |-> [ content_type |-> server[url] ] ]

\* A _get_media that builds an entry for a cell without a link.
_get_media_no_skip(row, server, label) ==
    LET data == get_field_data(row, label)
        url  == get_url(data)
    IN Return([ name  |-> get_text(data),
                links |-> << [ url        |-> get_url(data),
                               media_type |-> IF url = NoUrl THEN ""
                                              ELSE head(server, url)
                                                     .headers.content_type ] >> ])

\* BillsDetailTableRow._get_media
_get_media(row, server, label) ==
    LET data == get_field_data(row, label)
        url  == get_url(data)
    IN IF url = NoUrl
       THEN Raise("SkipItem")
       ELSE LET resp       == head(server, url)
                media_type == resp.headers.content_type
            IN Return([ name  |-> get_text(data),
                        links |-> << [ url        |-> get_url(data),
                                       media_type |-> media_type ] >> ])

InitMedia ==
    /\ pupa_media \in MediaLists(MaxMedia)
    /\ \E u \in [MediaLabels -> MediaUrls \cup { NoUrl }] :
         mRow = [ l \in MediaLabels |-> [ text |-> l, url |-> u[l] ] ]
    /\ mServer \in [MediaUrls -> ContentTypes]
    /\ mIdx = 1
    /\ media = <<>>
    /\ mHeads = <<>>
    /\ mEnd = None
    /\ IdleButMedia

\* One turn of `for label in pupa_media: try: yield ... except SkipItem: continue`
\* with the item taken by the list() that wraps the producer.
gen_media ==
    /\ mEnd = None
    /\ mIdx <= Len(pupa_media)
    /\ LET label == pupa_media[mIdx]
           r     == _get_media(mRow, mServer, label)
       IN IF r.kind = "raise"
          THEN /\ IF r.exc = "SkipItem"
                  THEN mIdx' = mIdx + 1 /\ mEnd' = mEnd
                  ELSE mIdx' = mIdx /\ mEnd' = r.exc
               /\ UNCHANGED <<media, mHeads>>
          ELSE /\ media' = Append(media, r.value)
               /\ mHeads' = IF r.value.links[1].url = NoUrl THEN mHeads
                            ELSE Append(mHeads, r.value.links[1].url)
               /\ mIdx' = mIdx + 1
               /\ mEnd' = mEnd
    /\ UNCHANGED <<pupa_media, mRow, mServer, notMedia>>

\* The loop has no label left: the generator returns and the list is complete.
gen_media_exhausted ==
    /\ mEnd = None
    /\ mIdx > Len(pupa_media)
    /\ mEnd' = "exhausted"
    /\ UNCHANGED <<pupa_media, mRow, mServer, mIdx, media, mHeads, notMedia>>

NextMedia ==
    \/ gen_media
    \/ gen_media_exhausted

SpecMedia == InitMedia /\ [][NextMedia]_vars

\* The positions of pupa_media, among the first k, whose label has a url.
WithUrl(k) == { i \in 1..k : i <= Len(pupa_media)
                             /\ mRow[pupa_media[i]].url # NoUrl }

\* The j-th smallest member of a set of positions.
NthOf(P, j) == CHOOSE i \in P : Cardinality({ x \in P : x < i }) = j - 1

(***************************************************************************)
(* C11: in gen_media the skip-item signal never leaves the producer, and   *)
(* no other error does; after the loop has taken k labels the list holds   *)
(* exactly one entry per position among those k whose label has a url, in  *)
(* configuration order, each with that field's text, url and the content   *)
(* type of its HEAD request; a label without url adds nothing and the      *)
(* loop goes on to the next label, so that the producer ends only once     *)
(* every label has been taken.                                             *)
(***************************************************************************)
C11_SkipItemOmitsOnlyThatItem ==
    /\ mEnd \in { None, "exhausted" }
    /\ mEnd = "exhausted" => mIdx = Len(pupa_media) + 1
    /\ LET P == WithUrl(mIdx - 1)
       IN /\ Len(media) = Cardinality(P)
          /\ \A j \in 1..Len(media) :
               LET data == mRow[pupa_media[NthOf(P, j)]]
               IN /\ media[j].name = data.text
                  /\ Len(media[j].links) = 1
                  /\ media[j].links[1].url = data.url
                  /\ media[j].links[1].media_type = mServer[data.url]

\* The first label has no url and is left out, the second has one and is kept.
C11_Witness ==
    /\ mEnd = "exhausted"
    /\ Len(pupa_media) >= 2
    /\ mRow[pupa_media[1]].url = NoUrl
    /\ mRow[pupa_media[2]].url # NoUrl
    /\ Len(media) >= 1
    /\ media[1].name = pupa_media[2]

(***************************************************************************)
(* Layered overlays: Config.chainmap and Config._ORG_CLASSIFICATIONS are   *)
(* collections.ChainMap objects. A ChainMap keeps a list of dict objects   *)
(* (maps); a dict handed to new_child is used as it is, not copied, so     *)
(* dicts are held in a heap and named by their position.                   *)
(***************************************************************************)
MaxLayers == 4

\* 'config', 'url', 'client'
KeyConfig   == <<99,111,110,102,105,103>>
KeyUrl      == <<117,114,108>>
KeyClient   == <<99,108,105,101,110,116>>
\* 'sources'
KeySources  == <<115,111,117,114,99,101,115>>

\* Config.chainmap: the dict of the root ChainMap() after update(...)
chainmap ==
    (KeyConfig :> "self") @@ (KeyUrl :> "self.root_url")
      @@ (KeyClient :> "self.get_client()")
      @@ (<<105,110,102,111>> :> "logger.info")                   \* 'info'
      @@ (<<101,114,114,111,114>> :> "logger.error")              \* 'error'
      @@ (<<100,101,98,117,103>> :> "logger.debug")               \* 'debug'
      @@ (<<119,97,114,110,105,110,103>> :> "logger.warning")     \* 'warning'
      @@ (<<99,114,105,116,105,99,97,108>> :> "logger.critical")  \* 'critical'

RootOverlay == 1      \* the layer that is Config.chainmap
RootDefaults == 2     \* the layer that is Config.ORG_DEFAULT_CLASSIFICATIONS

\* Keys and values the callers of a layer of either family read and write.
KeysFor(root) ==
    IF root = RootOverlay THEN { KeyUrl, KeySources } ELSE { Department, TaskForce }

ValsFor(root) ==
    IF root = RootOverlay THEN { "sources#1", "http://y/" }
    ELSE { "committee", "legislature" }

\* The mappings a caller hands to new_child on the root overlay's family.
Extras == { <<>>, (KeySources :> "sources#1"), (KeyUrl :> "http://y/") }

\* ChainMap.__getitem__ / get: the value in the first of the maps that has the
\* key, <<>> when none has it
RECURSIVE ChainMap_get(_, _, _)
ChainMap_get(heap, maps, key) ==
    IF maps = <<>> THEN <<>>
    ELSE IF key \in DOMAIN heap[Head(maps)] THEN << heap[Head(maps)][key] >>
    ELSE ChainMap_get(heap, Tail(maps), key)

\* ChainMap.new_child(m): ChainMap(m, *self.maps), m being the dict named m
ChainMap_new_child(layers, parent, m) ==
    Append(layers, [ maps   |-> <<m>> \o layers[parent].maps,
                     parent |-> parent,
                     root   |-> layers[parent].root ])

\* ChainMap.__setitem__: self.maps[0][key] = value
ChainMap_setitem(heap, maps, key, value) ==
    [ heap EXCEPT ![maps[1]] = (key :> value) @@ @ ]

\* ChainMap.__delitem__: del self.maps[0][key]
ChainMap_delitem(heap, maps, key) ==
    [ heap EXCEPT ![maps[1]] = [ k \in (DOMAIN @) \ { key } |-> @[k] ] ]

InitOverlay ==
    /\ \E classn \in JurisdictionClassifications :
         IF DOMAIN classn = {}
         THEN /\ ovHeap = << chainmap, ORG_DEFAULT_CLASSIFICATIONS >>
              /\ ovClassn = 0
         ELSE /\ ovHeap = << chainmap, ORG_DEFAULT_CLASSIFICATIONS, classn >>
              /\ ovClassn = 3
    /\ ovLayers = << [ maps |-> <<1>>, parent |-> 0, root |-> RootOverlay ],
                     [ maps |-> <<2>>, parent |-> 0, root |-> RootDefaults ] >>
    /\ ovLast = [ op |-> None, layer |-> 0 ]
    /\ IdleButOverlay

\* A nested extraction context pushes a layer on a layer of the root overlay.
new_child(p, extra) ==
    /\ Len(ovLayers) < MaxLayers
    /\ ovLayers[p].root = RootOverlay
    /\ ovHeap' = Append(ovHeap, extra)
    /\ ovLayers' = ChainMap_new_child(ovLayers, p, Len(ovHeap) + 1)
    /\ ovLast' = [ op |-> "new_child", layer |-> Len(ovLayers) + 1 ]
    /\ UNCHANGED <<ovClassn, notOverlay>>

\* The property Config._ORG_CLASSIFICATIONS: every access makes a layer on the
\* defaults whose first map is the Config's ORG_CLASSIFICATIONS dict itself,
\* or a new {} when the Config sets none.
_ORG_CLASSIFICATIONS ==
    /\ Len(ovLayers) < MaxLayers
    /\ IF ovClassn # 0
       THEN /\ ovHeap' = ovHeap
            /\ ovLayers' = ChainMap_new_child(ovLayers, RootDefaults, ovClassn)
       ELSE /\ ovHeap' = Append(ovHeap, <<>>)
            /\ ovLayers' = ChainMap_new_child(ovLayers, RootDefaults,
                                              Len(ovHeap) + 1)
    /\ ovLast' = [ op |-> "new_child", layer |-> Len(ovLayers) + 1 ]
    /\ UNCHANGED <<ovClassn, notOverlay>>

\* layer[key] = value on a child layer
setitem(l, key, value) ==
    /\ ovLayers[l].parent # 0
    /\ ovHeap' = ChainMap_setitem(ovHeap, ovLayers[l].maps, key, value)
    /\ ovLast' = [ op |-> "setitem", layer |-> l ]
    /\ UNCHANGED <<ovLayers, ovClassn, notOverlay>>

\* del layer[key] on a child layer whose own dict has the key
delitem(l, key) ==
    /\ ovLayers[l].parent # 0
    /\ key \in DOMAIN ovHeap[ovLayers[l].maps[1]]
    /\ ovHeap' = ChainMap_delitem(ovHeap, ovLayers[l].maps, key)
    /\ ovLast' = [ op |-> "delitem", layer |-> l ]
    /\ UNCHANGED <<ovLayers, ovClassn, notOverlay>>

NextOverlay ==
    \/ \E p \in 1..Len(ovLayers), extra \in Extras : new_child(p, extra)
    \/ _ORG_CLASSIFICATIONS
    \/ \E l \in 1..Len(ovLayers) :
         \E key \in KeysFor(ovLayers[l].root), value \in ValsFor(ovLayers[l].root) :
            setitem(l, key, value)
    \/ \E l \in 1..Len(ovLayers) :
         \E key \in KeysFor(ovLayers[l].root) : delitem(l, key)

SpecOverlay == InitOverlay /\ [][NextOverlay]_vars

\* The entries a layer holds: what each key of its family reads as through it.
Holds(heap, layer) ==
    [ key \in KeysFor(layer.root) |-> ChainMap_get(heap, layer.maps, key) ]

\* A layer looks a key up in its own mapping first and otherwise as the layer
\* it was made on does.
LookupFallsThrough ==
    \A l \in 1..Len(ovLayers) :
        ovLayers[l].parent # 0 =>
            \A key \in KeysFor(ovLayers[l].root) :
                LET own == ovHeap[ovLayers[l].maps[1]]
                IN ChainMap_get(ovHeap, ovLayers[l].maps, key) =
                     IF key \in DOMAIN own THEN << own[key] >>
                     ELSE ChainMap_get(ovHeap, ovLayers[ovLayers[l].parent].maps,
                                       key)

\* A write to a child layer leaves its parent and its siblings as they were.
WriteLeavesParentAndSiblings ==
    ovLast'.op \in { "setitem", "delitem" } =>
        LET l == ovLast'.layer
        IN \A m \in 1..Len(ovLayers) :
              (m = ovLayers[l].parent
                 \/ (m # l /\ ovLayers[m].parent = ovLayers[l].parent)) =>
                    Holds(ovHeap', ovLayers[m]) = Holds(ovHeap, ovLayers[m])

(***************************************************************************)
(* C12: a layer made by new_child(extra) reads a key from extra first and  *)
(* otherwise from the nearest ancestor that defines it, and a write to a   *)
(* child layer changes no entry held by its parent layer or by any of its  *)
(* sibling layers.                                                         *)
(***************************************************************************)
C12_ChildWritesInvisibleToParentAndSiblings ==
    /\ []LookupFallsThrough
    /\ [][WriteLeavesParentAndSiblings]_vars

(***************************************************************************)
(* Building one BillsFields document twice from the same page and Config.  *)
(***************************************************************************)
MaxViews == 2

\* What a view or table of the page records as its provenance.
BuildNotes == { NoteBillsSearch, NoteBillDetail, NoteBillDetailTable }

ViewLists ==
    UNION { [1..n -> BuildNotes \X Urls] : n \in 0..MaxViews }

\* The text the page renders for intro_date: a date, an unparsable one, none.
BuildFields ==
    { [ focus |-> None, text |-> NoText ],
      [ focus |-> "intro_date",
        text  |-> Text(<<Num(2), Lit("/"), Num(2), Lit("/"), Num(2014)>>) ],
      [ focus |-> "intro_date",
        text  |-> Text(<<Num(13), Lit("/"), Num(2), Lit("/"), Num(2014)>>) ] }

\* Sources accumulated before the document's own views add theirs.
StartSources ==
    { <<>>, << <<NoteBillsSearch, "http://x/1">> >>,
      << <<NoteBillDetail, "http://x/2">> >> }

\* FieldAggregator over BillsFields: intro_date, file_created, sources; a
\* producer that raises ends the build with that error.
BillsFields_build(page, fmt, d) ==
    LET intro   == _get_date(page, fmt, "intro_date")
        created == _get_date(page, fmt, "file_created")
        failed  == IF intro.kind = "raise" THEN intro.exc
                   ELSE IF created.kind = "raise" THEN created.exc
                   ELSE None
    IN [ error        |-> failed,
         intro_date   |-> IF intro.kind = "raise" THEN <<>> ELSE intro.value,
         file_created |-> IF failed # None THEN <<>> ELSE created.value,
         sources      |-> IF failed # None THEN <<>>
                          ELSE BillsFields_gen_sources(d) ]

InitBuild ==
    /\ bPage \in [ views : ViewLists, fields : BuildFields ]
    /\ bStart \in StartSources
    /\ bSources = bStart
    /\ bSeed = None
    /\ bPc = "idle"
    /\ bView = 1
    /\ bDocs = <<>>
    /\ IdleButBuild

\* The first build starts, in a process with some hash seed.
StartBuild(seed) ==
    /\ bPc = "idle"
    /\ bDocs = <<>>
    /\ bSeed' = seed
    /\ bPc' = "views"
    /\ bView' = 1
    /\ UNCHANGED <<bPage, bStart, bSources, bDocs, notBuild>>

\* The next view of the page records its sources_note and url.
Contribute ==
    /\ bPc = "views"
    /\ bView <= Len(bPage.views)
    /\ bSources' = DictStore(bSources, bPage.views[bView][1], bPage.views[bView][2])
    /\ bView' = bView + 1
    /\ UNCHANGED <<bPage, bStart, bSeed, bPc, bDocs, notBuild>>

\* Every view has been visited: the aggregator runs the producers.
Aggregate ==
    /\ bPc = "views"
    /\ bView > Len(bPage.views)
    /\ bDocs' = Append(bDocs, BillsFields_build(bPage.fields, FormatUS, bSources))
    /\ bPc' = "built"
    /\ UNCHANGED <<bPage, bStart, bSources, bSeed, bView, notBuild>>

\* The document is built again on the overlay the first build left behind.
RebuildOnSameOverlay(seed) ==
    /\ bPc = "built"
    /\ Len(bDocs) = 1
    /\ bSeed' = seed
    /\ bPc' = "views"
    /\ bView' = 1
    /\ UNCHANGED <<bPage, bStart, bSources, bDocs, notBuild>>

\* The document is built again on a new overlay with the same accumulated
\* sources as the first build started from.
RebuildOnNewOverlay(seed) ==
    /\ bPc = "built"
    /\ Len(bDocs) = 1
    /\ bSources' = bStart
    /\ bSeed' = seed
    /\ bPc' = "views"
    /\ bView' = 1
    /\ UNCHANGED <<bPage, bStart, bDocs, notBuild>>

NextBuild ==
    \/ \E seed \in HashSeeds : StartBuild(seed)
    \/ Contribute
    \/ Aggregate
    \/ \E seed \in HashSeeds : RebuildOnSameOverlay(seed)
    \/ \E seed \in HashSeeds : RebuildOnNewOverlay(seed)

SpecBuild == InitBuild /\ [][NextBuild]_vars

(***************************************************************************)
(* C13: the document built a second time from the same page and Config,    *)
(* whether on the overlay the first build left behind or on a new one      *)
(* with the same accumulated sources, and whatever order the process       *)
(* iterates sets in, is field for field the document built the first      *)
(* time, with the same `sources` records and note strings.                 *)
(***************************************************************************)
C13_SecondBuildEqualsFirst ==
    Len(bDocs) = 2 =>
        /\ bDocs[2].error = bDocs[1].error
        /\ bDocs[2].intro_date = bDocs[1].intro_date
        /\ bDocs[2].file_created = bDocs[1].file_created
        /\ bDocs[2].sources = bDocs[1].sources

\* Two notes under one url, the second build in a process seeded "seed-b".
C13_Witness ==
    /\ Len(bDocs) = 2
    /\ bSeed = "seed-b"
    /\ bDocs[1].error = None
    /\ bDocs[1].intro_date # <<>>
    /\ \E i \in 1..Len(bDocs[1].sources) :
         bDocs[1].sources[i].note = NoteBillDetail \o CommaSpace \o NoteBillsSearch

(***************************************************************************)
(* C14: the traversal is lazy and in order. The rows handed to the         *)
(* consumer come page by page in the order the pages were requested, and   *)
(* within a page in document order without a gap; a page is requested by   *)
(* following the link of the page requested before it, and only once the   *)
(* consumer has been handed every row of that page; and a consumer that    *)
(* has been handed n rows and is not pulling has caused requests for the   *)
(* pages up to the one holding row n and for no other (for none at all     *)
(* when n = 0).                                                            *)
(***************************************************************************)
C14_LazyInOrderTraversal ==
    /\ \A i \in 1..Len(yielded) :
          /\ yielded[i][1] \in 1..Len(fetchLog)
          /\ yielded[i] = TableRows(yielded[i][1])[yielded[i][2]]
          /\ IF yielded[i][2] > 1
             THEN i > 1 /\ yielded[i - 1] = <<yielded[i][1], yielded[i][2] - 1>>
             ELSE i > 1 => yielded[i - 1][1] < yielded[i][1]
    /\ \A k \in 1..Len(fetchLog) :
          /\ fetchLog[k] = site[k].url
          /\ k > 1 =>
               /\ fetchLog[k] = PGN_NEXT_PAGE_XPATH(site[k - 1].pager)
               /\ \A r \in 1..Len(TableRows(k - 1)) :
                     \E i \in 1..Len(yielded) : yielded[i] = <<k - 1, r>>
    /\ (~pulling /\ pgPc \in {"start", "rows"}) =>
          Len(fetchLog) = IF yielded = <<>> THEN 0
                          ELSE yielded[Len(yielded)][1]

\* The consumer stops with the last row of the second page in hand: the third
\* page is linked and has not been requested.
C14_Witness ==
    /\ ~pulling
    /\ pgPc = "rows"
    /\ Len(site) >= 3
    /\ pgCur = 2
    /\ Len(TableRows(1)) >= 2
    /\ Len(TableRows(2)) >= 1
    /\ pgRow = Len(TableRows(2))
    /\ Len(yielded) = Len(TableRows(1)) + Len(TableRows(2))
    /\ PGN_NEXT_PAGE_XPATH(site[2].pager) = PageUrl(3)
    /\ fetchLog = <<PageUrl(1), PageUrl(2)>>

=============================================================================
